---- MODULE Spec2Model ----
(***************************************************************************)
(* A model of ShapeX (src/src/shapex.ts): the subscription registry, the   *)
(* state differ (changedState) and the re-entrant dispatch loop.           *)
(*                                                                         *)
(* dispatch is synchronous and recursive.  The model keeps the call stack  *)
(* of the dispatch invocations in progress explicitly (variable stack) and *)
(* runs one statement group of the top invocation per step; while a        *)
(* dispatch is in progress no other operation of the instance is enabled,  *)
(* as on the single JavaScript thread.                                     *)
(***************************************************************************)
EXTENDS Integers, Sequences, FiniteSets, TLC

VARIABLES
  host,            \* the host program using the instance (fixed per behaviour)
  _state,          \* shapex.ts:98   let _state = initialState
  _subscriptions,  \* shapex.ts:99   Map<string, Array<Subscription>>, in key order
  subscriptionId,  \* shapex.ts:103  let subscriptionId = 0
  stack,           \* the dispatch invocations in progress, innermost first
  dispatched,      \* number of dispatch calls the host has made so far
  log,             \* history: the callback invocations of the latest host dispatch
  calls,           \* history: the dispatch calls (host and nested) of the latest host dispatch
  promises         \* the promises callbacks returned during the latest host dispatch

vars ==
  <<host, _state, _subscriptions, subscriptionId, stack, dispatched, log, calls, promises>>

(***************************************************************************)
(* Bounds of the model.                                                    *)
(***************************************************************************)
MaxSubs == 3
MaxDispatches == 2

(***************************************************************************)
(* JavaScript values.  A state tree is the sequence of the own enumerable  *)
(* keys of an object, in enumeration order; each entry has the key, the    *)
(* value and, for an object value, the entries of that object.  An object  *)
(* value carries its identity in s (strict equality of objects compares    *)
(* identities): the objects of the current state are identified by the     *)
(* path they sit at, objects a callback constructs are identified by "".   *)
(***************************************************************************)
Num(n) == [t |-> "number", n |-> n, s |-> ""]
Str(s) == [t |-> "string", n |-> 0, s |-> s]
Bool(b) == [t |-> "boolean", n |-> IF b THEN 1 ELSE 0, s |-> ""]
Obj(ref) == [t |-> "object", n |-> 0, s |-> ref]
NewObj == Obj("")
Fld(k, val, kids) == [k |-> k, val |-> val, kids |-> kids]

Undefined == [t |-> "undefined", n |-> 0, s |-> ""]
NaN == [t |-> "number", n |-> 0, s |-> "NaN"]
\* JavaScript truthiness of a value: undefined, 0, NaN, "" and false are falsy.
Truthy(v) ==
  ~ \/ v.t = "undefined"
    \/ v.t = "number" /\ v.n = 0
    \/ v.t = "string" /\ v.s = ""
    \/ v.t = "boolean" /\ v.n = 0
\* Mutant of StrictNotEqual: values of different types are not compared.
SameTypeNotEqual(a, b) == a.t = b.t /\ (a /= b \/ a = NaN)
\* a !== b: identity for objects, value for primitives, and NaN differs from itself.
StrictNotEqual(a, b) == a /= b \/ a = NaN

HasKey(tree, k) == \E i \in 1..Len(tree) : tree[i].k = k
KeyIndex(tree, k) == CHOOSE i \in 1..Len(tree) : tree[i].k = k
GetKey(tree, k) == tree[KeyIndex(tree, k)]

\* { ...tree, [k]: val }: an existing key keeps its position, a new key is appended.
SetKey(tree, k, val, kids) ==
  IF HasKey(tree, k)
  THEN [tree EXCEPT ![KeyIndex(tree, k)] = Fld(k, val, kids)]
  ELSE Append(tree, Fld(k, val, kids))

\* The objects of tree, each identified by the path it sits at.
RECURSIVE Located(_, _)
Located(tree, path) ==
  [i \in 1..Len(tree) |->
     IF tree[i].val.t = "object"
     THEN Fld(tree[i].k, Obj(path \o "." \o tree[i].k),
              Located(tree[i].kids, path \o "." \o tree[i].k))
     ELSE tree[i]]

\* The objects of tree, all freshly constructed.
RECURSIVE Fresh(_)
Fresh(tree) ==
  [i \in 1..Len(tree) |->
     IF tree[i].val.t = "object"
     THEN Fld(tree[i].k, NewObj, Fresh(tree[i].kids))
     ELSE tree[i]]

(***************************************************************************)
(* changedState (shapex.ts:172-224).                                       *)
(***************************************************************************)
\* Mutant of paths: the key is appended to the path without the separating dot.
RECURSIVE pathsNoDot(_, _)
pathsNoDot(state, path) ==
  IF state = <<>> THEN <<>>
  ELSE LET key == Head(state).k
           currentPath == path \o key
       IN  <<[path |-> currentPath, value |-> Head(state).val]>>
           \o (IF Head(state).val.t = "object"
               THEN pathsNoDot(Head(state).kids, currentPath)
               ELSE <<>>)
           \o pathsNoDot(Tail(state), path)

\* Mutant of paths: the traversal does not descend into object values.
pathsShallow(state, path) ==
  [i \in 1..Len(state) |-> [path |-> path \o "." \o state[i].k, value |-> state[i].val]]

\* paths(state, path): every key of the tree with its path and value, parents first.
RECURSIVE paths(_, _)
paths(state, path) ==
  IF state = <<>> THEN <<>>
  ELSE LET key == Head(state).k
           currentPath == path \o "." \o key
       IN  <<[path |-> currentPath, value |-> Head(state).val]>>
           \o (IF Head(state).val.t = "object"
               THEN paths(Head(state).kids, currentPath)
               ELSE <<>>)
           \o paths(Tail(state), path)

PathKeys(ps) == [i \in 1..Len(ps) |-> ps[i].path]
Includes(seq, x) == \E i \in 1..Len(seq) : seq[i] = x
\* Array.prototype.find(...)?.value: the value of the first entry with the path.
FindValue(ps, path) ==
  ps[CHOOSE i \in 1..Len(ps) :
       /\ ps[i].path = path
       /\ \A j \in 1..(i - 1) : ps[j].path /= path].value
\* Mutant of Distinct: the paths are returned without passing through a Set.
DistinctNot(seq) == seq

\* [...new Set(seq)]: the first occurrence of each element, in order.
RECURSIVE Distinct(_)
Distinct(seq) ==
  IF seq = <<>> THEN <<>>
  ELSE LET init == Distinct(SubSeq(seq, 1, Len(seq) - 1))
           last == seq[Len(seq)]
       IN  IF Includes(init, last) THEN init ELSE Append(init, last)

\* Mutant of DiffParts: only the keys of the root object are looked up for removal.
DiffPartsRemovedAtRoot(oldState, newState) ==
  LET oldPaths == paths(oldState, "$")
      oldPathKeys == PathKeys(oldPaths)
      newPaths == paths(newState, "$")
      newPathKeys == PathKeys(newPaths)
      added == SelectSeq(newPathKeys, LAMBDA p : ~Includes(oldPathKeys, p))
      removed == SelectSeq(PathKeys(pathsShallow(oldState, "$")),
                           LAMBDA p : ~Includes(newPathKeys, p))
      same == SelectSeq(oldPathKeys, LAMBDA p : Includes(newPathKeys, p))
      changed == SelectSeq(same,
                   LAMBDA p : StrictNotEqual(FindValue(oldPaths, p),
                                               FindValue(newPaths, p)))
  IN  [added |-> added, removed |-> removed, changed |-> changed]

\* Mutant of DiffParts: only the keys of the old state are visited, none is found added.
DiffPartsOldDriven(oldState, newState) ==
  LET oldPaths == paths(oldState, "$")
      oldPathKeys == PathKeys(oldPaths)
      newPaths == paths(newState, "$")
      newPathKeys == PathKeys(newPaths)
      removed == SelectSeq(oldPathKeys, LAMBDA p : ~Includes(newPathKeys, p))
      same == SelectSeq(oldPathKeys, LAMBDA p : Includes(newPathKeys, p))
      changed == SelectSeq(same,
                   LAMBDA p : StrictNotEqual(FindValue(oldPaths, p),
                                               FindValue(newPaths, p)))
  IN  [added |-> <<>>, removed |-> removed, changed |-> changed]

\* The parts of differ's result (shapex.ts:198-218).
DiffParts(oldState, newState) ==
  LET oldPaths == paths(oldState, "$")
      oldPathKeys == PathKeys(oldPaths)
      newPaths == paths(newState, "$")
      newPathKeys == PathKeys(newPaths)
      added == SelectSeq(newPathKeys, LAMBDA p : ~Includes(oldPathKeys, p))
      removed == SelectSeq(oldPathKeys, LAMBDA p : ~Includes(newPathKeys, p))
      same == SelectSeq(oldPathKeys, LAMBDA p : Includes(newPathKeys, p))
      changed == SelectSeq(same,
                   LAMBDA p : StrictNotEqual(FindValue(oldPaths, p),
                                               FindValue(newPaths, p)))
  IN  [added |-> added, removed |-> removed, changed |-> changed]

\* Mutant of differ: the walk is driven by the old state's keys, additions are not reported.
differOldDriven(oldState, newState) ==
  Distinct(DiffParts(oldState, newState).removed \o DiffParts(oldState, newState).changed)

\* Mutant of differ: the changed paths come first, then the removed, then the added.
differChangedFirst(oldState, newState) ==
  Distinct(DiffParts(oldState, newState).changed
           \o DiffParts(oldState, newState).removed
           \o DiffParts(oldState, newState).added)

\* Mutant of differ: removed paths are not reported.
differNoRemoved(oldState, newState) ==
  Distinct(DiffParts(oldState, newState).added \o DiffParts(oldState, newState).changed)

\* return [...new Set([...added, ...removed, ...changed])] (shapex.ts:220)
differ(oldState, newState) ==
  Distinct(DiffParts(oldState, newState).added
           \o DiffParts(oldState, newState).removed
           \o DiffParts(oldState, newState).changed)

\* Mutant of changedState: both arguments are the state already replaced.
changedStateAfterInstall(oldState, newState) == differ(newState, newState)

changedState(oldState, newState) == differ(oldState, newState)

(***************************************************************************)
(* The subscription registry: a Map from listener name to an array of      *)
(* subscriptions, kept as the sequence of its entries in insertion order.  *)
(***************************************************************************)
Has(map, name) == \E i \in 1..Len(map) : map[i].name = name
Get(map, name) == map[CHOOSE i \in 1..Len(map) : map[i].name = name].subs
\* Map.prototype.set: an existing key keeps its position, a new key goes last.
Set(map, name, subs) ==
  IF Has(map, name)
  THEN [i \in 1..Len(map) |->
          IF map[i].name = name THEN [name |-> name, subs |-> subs] ELSE map[i]]
  ELSE Append(map, [name |-> name, subs |-> subs])
Delete(map, name) == SelectSeq(map, LAMBDA e : e.name /= name)
\* _subscriptions.get(name) ?? []
GetOrEmpty(map, name) == IF Has(map, name) THEN Get(map, name) ELSE <<>>
Keys(map) == [i \in 1..Len(map) |-> map[i].name]

\* if (eventName) return get(eventName)?.length ?? 0;  return the number of keys
subscriptionCount(eventName) ==
  IF eventName /= ""
  THEN (IF Has(_subscriptions, eventName) THEN Len(Get(_subscriptions, eventName)) ELSE 0)
  ELSE Len(Keys(_subscriptions))
subscriptions == Keys(_subscriptions)
state == _state

(***************************************************************************)
(* The callbacks of the host programs (EventCallback, shapex.ts:34-38).    *)
(* A response is the object a callback returns: hasState says whether its  *)
(* state field is defined, dispatch is absent ("none"), one request        *)
(* ("one") or an array of requests ("list").  completion says how the call *)
(* of the callback ended: "return" with an object, "undefined" when the    *)
(* callback returned nothing, "throw" when it threw.                       *)
(***************************************************************************)
Response(hasState, st, kind, reqs) ==
  [completion |-> "return", hasState |-> hasState, state |-> st,
   dispatch |-> [kind |-> kind, reqs |-> reqs]]
\* The callback returned nothing: response is undefined.
ReturnsUndefined ==
  [completion |-> "undefined", hasState |-> FALSE, state |-> <<>>,
   dispatch |-> [kind |-> "none", reqs |-> <<>>]]
\* Mutant of Promise: the promise is awaited and its value read as the response.
PromiseAwaited(value) == value

\* The callback returned a promise of value: a Promise object has neither a
\* state nor a dispatch property.
Promise(value) ==
  [completion |-> "promise", hasState |-> FALSE, state |-> <<>>,
   dispatch |-> [kind |-> "none", reqs |-> <<>>], value |-> value]
\* The callback threw: there is no response.
Throws ==
  [completion |-> "throw", hasState |-> FALSE, state |-> <<>>,
   dispatch |-> [kind |-> "none", reqs |-> <<>>]]
Req(to, with) == [to |-> to, with |-> with]

\* state.counter + 1
CounterPlus1(st) ==
  IF ~HasKey(st, "counter") THEN NaN
  ELSE LET v == GetKey(st, "counter").val
       IN  IF v.t = "number" THEN (IF v = NaN THEN NaN ELSE Num(v.n + 1))
           ELSE Str(v.s \o "1")

Callback(cb, st, data) ==
  CASE cb = "same" ->
         \* (state) => ({ state })
         Response(TRUE, st, "none", <<>>)
    [] cb = "incr" ->
         \* (state) => ({ state: { ...state, counter: state.counter + 1 } })
         Response(TRUE, SetKey(st, "counter", CounterPlus1(st), <<>>), "none", <<>>)
    [] cb = "retype" ->
         \* (state) => ({ state: { ...state, counter: "string now" } })
         Response(TRUE, SetKey(st, "counter", Str("string now"), <<>>), "none", <<>>)
    [] cb = "setNested" ->
         \* (state) => ({ state: { ...state, nested: { ...state.nested, value: "new value" } } })
         Response(TRUE,
                  SetKey(st, "nested", NewObj,
                         SetKey(IF HasKey(st, "nested") THEN GetKey(st, "nested").kids
                                ELSE <<>>,
                                "value", Str("new value"), <<>>)),
                  "none", <<>>)
    [] cb = "copy" ->
         \* (state) => ({ state: structuredClone(state) })
         Response(TRUE, Fresh(st), "none", <<>>)
    [] cb = "deleteProperty" ->
         \* (state) => ({ state: { counter: state.counter } })
         Response(TRUE,
                  <<Fld("counter",
                        IF HasKey(st, "counter") THEN GetKey(st, "counter").val
                        ELSE Undefined,
                        <<>>)>>,
                  "none", <<>>)
    [] cb = "setView" ->
         \* (state) => ({ state: { ...state, view: "test" } })
         Response(TRUE, SetKey(st, "view", Str("test"), <<>>), "none", <<>>)
    [] cb = "setNestedValue" ->
         \* (state) => ({ state: { ...state, nested: { value: "test" } } })
         Response(TRUE,
                  SetKey(st, "nested", NewObj, <<Fld("value", Str("test"), <<>>)>>),
                  "none", <<>>)
    [] cb = "incrThen" ->
         \* (state) => ({ state: { ...state, counter: state.counter + 1 },
         \*               dispatch: { to: "nested-event", with: "arg-value" } })
         Response(TRUE, SetKey(st, "counter", CounterPlus1(st), <<>>),
                  "one", <<Req("nested-event", Str("arg-value"))>>)
    [] cb = "parent" ->
         \* (state) => ({ state, dispatch: { to: "nested-event", with: "arg-value" } })
         Response(TRUE, st, "one", <<Req("nested-event", Str("arg-value"))>>)
    [] cb = "parentList" ->
         \* (state) => ({ state, dispatch: [{ to: "nested-event-1" }, { to: "nested-event-2" }] })
         Response(TRUE, st, "list",
                  <<Req("nested-event-1", Undefined), Req("nested-event-2", Undefined)>>)
    [] cb = "incrUntil" ->
         \* (state) => state.counter < 2
         \*   ? { state: { ...state, counter: state.counter + 1 }, dispatch: { to: "increment" } }
         \*   : {}
         IF /\ HasKey(st, "counter")
            /\ GetKey(st, "counter").val.t = "number"
            /\ GetKey(st, "counter").val /= NaN
            /\ GetKey(st, "counter").val.n < 2
         THEN Response(TRUE, SetKey(st, "counter", CounterPlus1(st), <<>>),
                       "one", <<Req("increment", Undefined)>>)
         ELSE Response(FALSE, <<>>, "none", <<>>)
    [] cb = "observe" ->
         \* (state) => ({})
         Response(FALSE, <<>>, "none", <<>>)
    [] cb = "nothing" ->
         \* (state) => { }
         ReturnsUndefined
    [] cb = "throws" ->
         \* (state) => { throw new Error() }
         Throws
    [] cb = "parentZero" ->
         \* (state) => ({ state, dispatch: { to: "nested-event", with: 0 } })
         Response(TRUE, st, "one", <<Req("nested-event", Num(0))>>)
    [] cb = "asyncSame" ->
         \* async (state) => Promise.resolve({ state })
         Promise(Response(TRUE, st, "none", <<>>))
    [] cb = "asyncIncr" ->
         \* async (state) => Promise.resolve({ state: { ...state, counter: state.counter + 1 } })
         Promise(Response(TRUE, SetKey(st, "counter", CounterPlus1(st), <<>>), "none", <<>>))
    [] cb = "asyncParentList" ->
         \* async (state) => Promise.resolve({ state,
         \*   dispatch: [{ to: "nested-event-1" }, { to: "nested-event-2" }] })
         Promise(Response(TRUE, st, "list",
                          <<Req("nested-event-1", Undefined),
                            Req("nested-event-2", Undefined)>>))
    [] cb = "adderWithData" ->
         \* (state, data) => { if (data) $.subscribe("increment", (state) => ({ state }));
         \*                    return { state } }
         Response(TRUE, st, "none", <<>>)
    [] cb = "remover" ->
         \* (state) => { $.unsubscribe("increment"); return { state } }
         Response(TRUE, st, "none", <<>>)
    [] cb = "dropB" ->
         \* (state) => ({ a: 2 })
         Response(TRUE, <<Fld("a", Num(2), <<>>)>>, "none", <<>>)
    [] cb = "dropBAddC" ->
         \* (state) => ({ c: 3, a: 2 })
         Response(TRUE, <<Fld("c", Num(3), <<>>), Fld("a", Num(2), <<>>)>>, "none", <<>>)
    [] cb = "bump" ->
         \* (state) => ({ "a.b": 2, a: { b: 2 } })
         Response(TRUE,
                  <<Fld("a.b", Num(2), <<>>),
                    Fld("a", NewObj, <<Fld("b", Num(2), <<>>)>>)>>,
                  "none", <<>>)
    [] cb = "setBoth" ->
         \* (state) => ({ state: { ...state, a: 2, b: 2 } })
         Response(TRUE, SetKey(SetKey(st, "a", Num(2), <<>>), "b", Num(2), <<>>),
                  "none", <<>>)
    [] cb = "restoreB" ->
         \* (state) => ({ state: { ...state, b: 1 } })
         Response(TRUE, SetKey(st, "b", Num(1), <<>>), "none", <<>>)
    [] cb = "addExtra" ->
         \* (state) => ({ state: { ...state, nested: { ...state.nested, extra: 1 } } })
         Response(TRUE,
                  SetKey(st, "nested", NewObj,
                         SetKey(IF HasKey(st, "nested") THEN GetKey(st, "nested").kids
                                ELSE <<>>,
                                "extra", Num(1), <<>>)),
                  "none", <<>>)
    [] cb = "throwsWithData" ->
         \* (state, data) => { if (data) throw new Error(); return {} }
         IF Truthy(data) THEN Throws ELSE Response(FALSE, <<>>, "none", <<>>)
    [] cb = "parentMixed" ->
         \* (state) => ({ state, dispatch: [{ to: "nested-event", with: "" },
         \*                                   { to: "nested-event", with: "arg-value" }] })
         Response(TRUE, st, "list",
                  <<Req("nested-event", Str("")), Req("nested-event", Str("arg-value"))>>)

\* The call of the instance a callback makes while it runs, if any.
NoEffect == [op |-> "none", listener |-> "", callback |-> ""]
Effect(cb, data) ==
  CASE cb = "adderWithData" /\ Truthy(data) ->
         [op |-> "subscribe", listener |-> "increment", callback |-> "same"]
    [] cb = "remover" ->
         [op |-> "unsubscribe", listener |-> "increment", callback |-> ""]
    [] OTHER -> NoEffect

(***************************************************************************)
(* The host programs: the initial state each passes to ShapeX(...) and the *)
(* (listener, callback) pairs it subscribes.                               *)
(***************************************************************************)
Hosts == {"counter", "nested", "empty", "cascade", "repeat"}
\* Hosts that pass falsy data, request follow-up dispatches, or fail in a callback.
FlowHosts == {"falsy", "followups", "faulty"}
\* The host of the asynchronous callbacks (shapex.test.ts:827-963).
AsyncHosts == {"async"}
\* The host whose callbacks subscribe and unsubscribe while dispatch runs.
ReentrantHosts == {"reentrant"}
\* Hosts that replace several keys at once, one with a key that contains a dot.
DiffHosts == {"ab", "dotted"}
\* Hosts whose listeners of a changed path replace the state again.
CascadeHosts == {"restore", "grow", "chain", "loop"}
\* The host with a callback that throws in a pass that was re-entered.
AbortHosts == {"abort"}

InitialState(h) ==
  CASE h = "counter" -> <<Fld("counter", Num(1), <<>>)>>
    [] h = "nested" -> <<Fld("counter", Num(1), <<>>),
                         Fld("nested", Obj("$.nested"), <<Fld("value", Str("test"), <<>>)>>)>>
    [] h = "empty" -> <<>>
    [] h = "cascade" -> <<Fld("counter", Num(1), <<>>)>>
    [] h = "repeat" -> <<Fld("counter", Num(1), <<>>)>>
    [] h = "falsy" -> <<Fld("counter", Num(1), <<>>)>>
    [] h = "followups" -> <<Fld("counter", Num(1), <<>>)>>
    [] h = "faulty" -> <<Fld("counter", Num(1), <<>>)>>
    [] h = "async" -> <<Fld("counter", Num(1), <<>>)>>
    [] h = "reentrant" -> <<Fld("counter", Num(1), <<>>)>>
    [] h = "ab" -> <<Fld("a", Num(1), <<>>), Fld("b", Num(2), <<>>)>>
    [] h = "dotted" -> <<Fld("a.b", Num(1), <<>>),
                         Fld("a", Obj("$.a"), <<Fld("b", Num(1), <<>>)>>)>>
    [] h = "restore" -> <<Fld("a", Num(1), <<>>), Fld("b", Num(1), <<>>)>>
    [] h = "grow" -> <<Fld("nested", Obj("$.nested"), <<Fld("value", Str("test"), <<>>)>>)>>
    [] h = "chain" -> <<Fld("counter", Num(1), <<>>)>>
    [] h = "loop" -> <<Fld("counter", Num(1), <<>>)>>
    [] h = "abort" -> <<Fld("counter", Num(1), <<>>)>>

\* The (listener, callback) pairs the host passes to subscribe.
Handlers(h) ==
  CASE h = "counter" -> {<<"increment", "incr">>, <<"change-counter-type", "retype">>,
                         <<"$.counter", "same">>, <<"$counter", "same">>}
    [] h = "nested" -> {<<"change-nested-value", "setNested">>, <<"refresh", "copy">>,
                        <<"delete-property", "deleteProperty">>,
                        <<"$.nested", "same">>, <<"$.nested.value", "same">>}
    [] h = "empty" -> {<<"set-view", "setView">>, <<"set-nested-value", "setNestedValue">>,
                       <<"$.view", "same">>, <<"$.nested", "same">>,
                       <<"$.nested.value", "same">>}
    [] h = "cascade" -> {<<"parent-event", "incrThen">>, <<"parent-event", "same">>,
                         <<"nested-event", "same">>, <<"$.counter", "same">>}
    [] h = "repeat" -> {<<"increment", "incrUntil">>, <<"$.counter", "same">>}
    [] h = "falsy" -> {<<"test-event", "same">>, <<"test-event", "observe">>}
    [] h = "followups" -> {<<"parent-event", "parent">>, <<"parent-event", "parentList">>,
                           <<"parent-event", "parentZero">>,
                           <<"parent-event", "parentMixed">>,
                           <<"nested-event", "same">>, <<"nested-event-1", "same">>,
                           <<"nested-event-2", "same">>}
    [] h = "faulty" -> {<<"parent-event", "incrThen">>, <<"parent-event", "same">>,
                        <<"nested-event", "throws">>, <<"nested-event", "nothing">>,
                        <<"nested-event", "observe">>}
    [] h = "async" -> {<<"increment", "asyncIncr">>, <<"increment", "incr">>,
                       <<"$.counter", "same">>, <<"parent-event", "asyncParentList">>,
                       <<"nested-event-1", "same">>, <<"test-event", "asyncSame">>}
    [] h = "reentrant" -> {<<"increment", "incrUntil">>, <<"increment", "adderWithData">>,
                           <<"increment", "remover">>, <<"increment", "same">>}
    [] h = "ab" -> {<<"update", "dropB">>, <<"update", "dropBAddC">>,
                    <<"$.a", "same">>, <<"$.b", "same">>, <<"$.c", "same">>}
    [] h = "dotted" -> {<<"bump", "bump">>, <<"$.a.b", "same">>, <<"$.a", "same">>}
    [] h = "restore" -> {<<"update", "setBoth">>, <<"$.a", "restoreB">>, <<"$.b", "same">>}
    [] h = "grow" -> {<<"add-extra", "addExtra">>, <<"set-view", "setView">>,
                      <<"$.nested.extra", "same">>}
    [] h = "chain" -> {<<"parent-event", "incrThen">>, <<"parent-event", "incr">>,
                       <<"$.counter", "setView">>, <<"nested-event", "observe">>}
    [] h = "loop" -> {<<"increment", "incrUntil">>, <<"$.counter", "same">>}
    [] h = "abort" -> {<<"increment", "incr">>, <<"increment", "incrUntil">>,
                       <<"increment", "throwsWithData">>}

\* The (listener, callback) pairs the host passes to subscribeOnce.
OnceHandlers(h) ==
  CASE h = "counter" -> {<<"$.counter", "same">>}
    [] h = "nested" -> {<<"$.nested.value", "same">>}
    [] h = "empty" -> {<<"$.view", "same">>}
    [] h = "cascade" -> {<<"parent-event", "same">>}
    [] h = "repeat" -> {<<"increment", "incrUntil">>, <<"increment", "incr">>}
    [] h = "falsy" -> {<<"test-event", "same">>}
    [] h = "followups" -> {<<"nested-event", "same">>}
    [] h = "faulty" -> {<<"nested-event", "observe">>}
    [] h = "async" -> {<<"increment", "asyncIncr">>}
    [] h = "reentrant" -> {<<"increment", "same">>}
    [] h = "ab" -> {<<"$.a", "same">>}
    [] h = "dotted" -> {<<"$.a.b", "same">>}
    [] h = "restore" -> {<<"$.b", "same">>}
    [] h = "grow" -> {<<"$.nested.extra", "same">>}
    [] h = "chain" -> {<<"nested-event", "observe">>}
    [] h = "loop" -> {<<"increment", "incrUntil">>}
    [] h = "abort" -> {<<"increment", "incrUntil">>, <<"increment", "observe">>}

\* The names the host passes to unsubscribe.
Names(h) == {p[1] : p \in Handlers(h) \cup OnceHandlers(h)}

\* The (name, data) pairs the host passes to dispatch.
Dispatches(h) ==
  CASE h = "counter" -> {<<"increment", Undefined>>, <<"change-counter-type", Undefined>>,
                         <<"unknown-event", Undefined>>}
    [] h = "nested" -> {<<"change-nested-value", Undefined>>, <<"refresh", Undefined>>,
                        <<"delete-property", Undefined>>}
    [] h = "empty" -> {<<"set-view", Undefined>>, <<"set-nested-value", Undefined>>}
    [] h = "cascade" -> {<<"parent-event", Undefined>>, <<"nested-event", Str("arg-value")>>}
    [] h = "repeat" -> {<<"increment", Undefined>>}
    [] h = "falsy" -> {<<"test-event", Undefined>>, <<"test-event", Str("arg1-value")>>,
                       <<"test-event", Num(0)>>, <<"test-event", Str("")>>,
                       <<"test-event", Bool(FALSE)>>}
    [] h = "followups" -> {<<"parent-event", Undefined>>}
    [] h = "faulty" -> {<<"parent-event", Undefined>>, <<"nested-event", Undefined>>}
    [] h = "async" -> {<<"increment", Undefined>>, <<"parent-event", Undefined>>,
                       <<"test-event", Str("arg1-value")>>}
    [] h = "reentrant" -> {<<"increment", Undefined>>, <<"increment", Str("arg-value")>>}
    [] h = "ab" -> {<<"update", Undefined>>}
    [] h = "dotted" -> {<<"bump", Undefined>>}
    [] h = "restore" -> {<<"update", Undefined>>}
    [] h = "grow" -> {<<"add-extra", Undefined>>, <<"set-view", Undefined>>}
    [] h = "chain" -> {<<"parent-event", Undefined>>}
    [] h = "loop" -> {<<"increment", Undefined>>}
    [] h = "abort" -> {<<"increment", Undefined>>, <<"increment", Str("arg-value")>>}

(***************************************************************************)
(* ShapeX(initialState) (shapex.ts:97-103).                                *)
(***************************************************************************)
Init ==
  /\ host \in Hosts
  /\ _state = InitialState(host)
  /\ _subscriptions = <<>>
  /\ subscriptionId = 0
  /\ stack = <<>>
  /\ dispatched = 0
  /\ log = <<>>
  /\ calls = <<>>
  /\ promises = <<>>

\* The same construction, by a host of FlowHosts.
InitFlow ==
  /\ host \in FlowHosts
  /\ _state = InitialState(host)
  /\ _subscriptions = <<>>
  /\ subscriptionId = 0
  /\ stack = <<>>
  /\ dispatched = 0
  /\ log = <<>>
  /\ calls = <<>>
  /\ promises = <<>>

\* The same construction, by the other groups of hosts.
InitAsync ==
  /\ host \in AsyncHosts
  /\ _state = InitialState(host)
  /\ _subscriptions = <<>>
  /\ subscriptionId = 0
  /\ stack = <<>>
  /\ dispatched = 0
  /\ log = <<>>
  /\ calls = <<>>
  /\ promises = <<>>

InitReentrant ==
  /\ host \in ReentrantHosts
  /\ _state = InitialState(host)
  /\ _subscriptions = <<>>
  /\ subscriptionId = 0
  /\ stack = <<>>
  /\ dispatched = 0
  /\ log = <<>>
  /\ calls = <<>>
  /\ promises = <<>>

InitDiff ==
  /\ host \in DiffHosts
  /\ _state = InitialState(host)
  /\ _subscriptions = <<>>
  /\ subscriptionId = 0
  /\ stack = <<>>
  /\ dispatched = 0
  /\ log = <<>>
  /\ calls = <<>>
  /\ promises = <<>>

InitCascade ==
  /\ host \in CascadeHosts
  /\ _state = InitialState(host)
  /\ _subscriptions = <<>>
  /\ subscriptionId = 0
  /\ stack = <<>>
  /\ dispatched = 0
  /\ log = <<>>
  /\ calls = <<>>
  /\ promises = <<>>

InitAbort ==
  /\ host \in AbortHosts
  /\ _state = InitialState(host)
  /\ _subscriptions = <<>>
  /\ subscriptionId = 0
  /\ stack = <<>>
  /\ dispatched = 0
  /\ log = <<>>
  /\ calls = <<>>
  /\ promises = <<>>

Idle == stack = <<>>

(***************************************************************************)
(* subscribe, subscribeOnce, unsubscribe (shapex.ts:112-163).  The id of a *)
(* subscription record is the id the call returned for it; it also stands  *)
(* for the identity of the record object.                                  *)
(***************************************************************************)
\* Mutant of PreIncrement: subscriptionId++ (the value before the increment is returned).
PostIncrement(id) == [value |-> id + 1, result |-> id]

\* return ++subscriptionId: the new value of the counter and the value returned.
PreIncrement(id) == [value |-> id + 1, result |-> id + 1]

Subscription(listener, callback, once, id) ==
  [listener |-> listener, callback |-> callback, once |-> once, id |-> id]

\* Mutant of Push: the new subscription replaces the ones registered under listener.
PushReplacing(map, listener, subscription) == Set(map, listener, <<subscription>>)

\* if (!has(listener)) set(listener, []);  get(listener).push(subscription)
Push(map, listener, subscription) ==
  Set(map, listener,
      Append(IF Has(map, listener) THEN Get(map, listener) ELSE <<>>, subscription))

subscribe(listener, callback) ==
  /\ Idle
  /\ subscriptionId < MaxSubs
  /\ _subscriptions' = Push(_subscriptions, listener,
                            Subscription(listener, callback, FALSE,
                                         PreIncrement(subscriptionId).result))
  /\ subscriptionId' = PreIncrement(subscriptionId).value
  /\ log' = <<>>
  /\ calls' = <<>>
  /\ promises' = <<>>
  /\ UNCHANGED <<host, _state, stack, dispatched>>

subscribeOnce(listener, callback) ==
  /\ Idle
  /\ subscriptionId < MaxSubs
  /\ _subscriptions' = Push(_subscriptions, listener,
                            Subscription(listener, callback, TRUE,
                                         PreIncrement(subscriptionId).result))
  /\ subscriptionId' = PreIncrement(subscriptionId).value
  /\ log' = <<>>
  /\ calls' = <<>>
  /\ promises' = <<>>
  /\ UNCHANGED <<host, _state, stack, dispatched>>

unsubscribe(listener) ==
  /\ Idle
  /\ _subscriptions' = IF Has(_subscriptions, listener)
                       THEN Delete(_subscriptions, listener)
                       ELSE _subscriptions
  /\ log' = <<>>
  /\ calls' = <<>>
  /\ promises' = <<>>
  /\ UNCHANGED <<host, _state, subscriptionId, stack, dispatched>>

(***************************************************************************)
(* dispatch (shapex.ts:233-293).  A frame is one invocation in progress:   *)
(*   to, withData  its arguments                                           *)
(*   live, scoped  scopedSubsriptions: while live, the array the registry  *)
(*                 holds for to (the same object, so pushes to it are      *)
(*                 seen); once the registry entry was replaced or deleted, *)
(*                 the array as it was then                                *)
(*   i             position of the for-of loop in scopedSubsriptions       *)
(*   remaining     remainingSubscriptions                                  *)
(*   phase         "call": about to test the loop condition;               *)
(*                 "nested": running the dispatches of the last response   *)
(*   pend          the dispatch calls of the last response still to make   *)
(*   cur, pass     history: log index of the last invocation, index of     *)
(*                 this call in calls                                      *)
(***************************************************************************)
Top == Head(stack)
Scoped(f) == IF f.live THEN GetOrEmpty(_subscriptions, f.to) ELSE f.scoped

Ids(subs) == [i \in 1..Len(subs) |-> subs[i].id]

\* Mutant of Enter: the nested dispatch is queued behind the invocations in progress.
EnterQueued(stk, to, withData, pass) ==
  IF ~Has(_subscriptions, to) THEN stk
  ELSE stk \o <<[to |-> to, withData |-> withData, live |-> TRUE, scoped |-> <<>>,
                 i |-> 1, remaining |-> <<>>, phase |-> "call", pend |-> <<>>,
                 cur |-> 0, pass |-> pass]>>

\* Mutant of Enter: no early return when the registry has no key for to.
EnterAlways(stk, to, withData, pass) ==
  <<[to |-> to, withData |-> withData, live |-> TRUE, scoped |-> <<>>, i |-> 1,
     remaining |-> <<>>, phase |-> "call", pend |-> <<>>, cur |-> 0,
     pass |-> pass]>> \o stk

\* Entering dispatch(to, withData): return at once without the key, else start the loop.
Enter(stk, to, withData, pass) ==
  IF ~Has(_subscriptions, to) THEN stk
  ELSE <<[to |-> to, withData |-> withData, live |-> TRUE, scoped |-> <<>>, i |-> 1,
          remaining |-> <<>>, phase |-> "call", pend |-> <<>>, cur |-> 0,
          pass |-> pass]>> \o stk

CallRecord(to, withData, by) ==
  [to |-> to, withData |-> withData, by |-> by,
   ids |-> IF Has(_subscriptions, to) THEN Ids(Get(_subscriptions, to)) ELSE <<>>]

dispatch(to, withData) ==
  /\ Idle
  /\ dispatched < MaxDispatches
  /\ dispatched' = dispatched + 1
  /\ stack' = Enter(stack, to, withData, 1)
  /\ log' = <<>>
  /\ calls' = <<CallRecord(to, withData, 0)>>
  /\ promises' = <<>>
  /\ UNCHANGED <<host, _state, _subscriptions, subscriptionId>>

\* The dispatch calls a response makes after the state changes (shapex.ts:267-283).
Requests(response) ==
  IF response.dispatch.kind = "none" THEN <<>>
  ELSE [k \in 1..Len(response.dispatch.reqs) |->
          LET dispatchee == response.dispatch.reqs[k]
          IN  [to |-> dispatchee.to,
               withData |-> IF Truthy(dispatchee.with) THEN dispatchee.with
                            ELSE Undefined]]

\* Mutant of ChangeCalls: the changed path is dispatched with the path as data.
ChangeCallsWithData(changes) ==
  [k \in 1..Len(changes) |-> [to |-> changes[k], withData |-> Str(changes[k])]]

\* The dispatch calls for the changed paths (shapex.ts:261-263).
ChangeCalls(changes) ==
  [k \in 1..Len(changes) |-> [to |-> changes[k], withData |-> Undefined]]

\* Mutant of NextState: the response's state is not installed.
NextStateKept(current, response) == current

\* Mutant of NextState: response.state is installed without the test for undefined.
NextStateAlways(current, response) == Located(response.state, "$")

\* _state after the response: replaced by a defined response.state (shapex.ts:257-259).
NextState(current, response) ==
  IF response.hasState THEN Located(response.state, "$") ELSE current

\* Mutant of Raised: an undefined response is read like an empty object.
RaisedByCallbackOnly(response) ==
  IF response.completion = "throw" THEN "Error" ELSE "none"

\* The error raised by the statements that call the callback and read its
\* response (shapex.ts:253-257): the callback's own error, or the TypeError of
\* reading response.state when response is undefined.
Raised(response) ==
  CASE response.completion = "throw" -> "Error"
    [] response.completion = "undefined" -> "TypeError"
    [] OTHER -> "none"

\* Mutant of Unwind: the error ends the innermost dispatch only.
UnwindInnermost(stk) == Tail(stk)

\* No dispatch in progress catches: the error ends all of them (shapex.ts:233-293).
Unwind(stk) == <<>>

\* Mutant of Unwound: the innermost dispatch writes its retained subscriptions on the way out.
UnwoundWritten(map, stk) == Set(map, Head(stk).to, Head(stk).remaining)

\* The registry after the error has left the dispatches in progress stk: the
\* statement that writes it (shapex.ts:292) is skipped in each of them.
Unwound(map, stk) == map

\* Mutant of Argument: every callback is handed the state the host dispatch began with.
ArgumentStale(current, first) == first

\* callback(_state, ...) (shapex.ts:253): the variable is read at the call, so
\* the callback receives the current state, not the state first of an earlier read.
Argument(current, first) == current

\* Mutant of Pending: the follow-up requests are dispatched before the changed paths.
PendingFollowUpsFirst(changes, response) == Requests(response) \o ChangeCalls(changes)

\* The dispatch calls one response leads to, in the order the loop body makes
\* them (shapex.ts:261-283): the changed paths, then the follow-up requests.
Pending(changes, response) == ChangeCalls(changes) \o Requests(response)

\* Mutant of Advance: the loop stays on the subscription it has just invoked.
AdvanceStuck(i) == i

\* for (const subscription of scopedSubsriptions): the iterator moves on by one.
Advance(i) == i + 1

\* Frames that iterate the array the registry held for name keep that array.
Detach(stk, name, array) ==
  [k \in 1..Len(stk) |->
     IF stk[k].to = name /\ stk[k].live
     THEN [stk[k] EXCEPT !.live = FALSE, !.scoped = array]
     ELSE stk[k]]

\* The registry after the call of the instance a callback makes while it runs.
RegistryAfter(effect) ==
  CASE effect.op = "subscribe" ->
         Push(_subscriptions, effect.listener,
              Subscription(effect.listener, effect.callback, FALSE,
                           PreIncrement(subscriptionId).result))
    [] effect.op = "unsubscribe" ->
         IF Has(_subscriptions, effect.listener)
         THEN Delete(_subscriptions, effect.listener)
         ELSE _subscriptions
    [] OTHER -> _subscriptions

\* The dispatches in progress after that call: a deleted entry leaves the
\* frames that iterate its array with the array.
StackAfter(effect) ==
  IF effect.op = "unsubscribe" /\ Has(_subscriptions, effect.listener)
  THEN Detach(stack, effect.listener, Get(_subscriptions, effect.listener))
  ELSE stack

\* One iteration of the loop up to the nested dispatches (shapex.ts:247-264).
InvokeCallback ==
  /\ ~Idle
  /\ Top.phase = "call"
  /\ Top.i <= Len(Scoped(Top))
  /\ LET subscription == Scoped(Top)[Top.i]
         data == IF Truthy(Top.withData) THEN Top.withData ELSE Undefined
         effect == Effect(subscription.callback, data)
         received == Argument(_state, IF log = <<>> THEN _state ELSE log[1].state)
         response == Callback(subscription.callback, received, data)
         changes == IF response.hasState THEN changedState(_state, response.state)
                    ELSE <<>>
         frame == Head(StackAfter(effect))
     IN  /\ Raised(response) = "none"
         /\ effect.op = "subscribe" => subscriptionId < MaxSubs
         /\ _subscriptions' = RegistryAfter(effect)
         /\ subscriptionId' = IF effect.op = "subscribe"
                              THEN PreIncrement(subscriptionId).value
                              ELSE subscriptionId
         /\ _state' = NextState(_state, response)
         /\ log' = Append(log, [id |-> subscription.id, listener |-> Top.to,
                                callback |-> subscription.callback,
                                once |-> subscription.once,
                                state |-> received, data |-> data,
                                response |-> response, changes |-> changes,
                                pass |-> Top.pass, depth |-> Len(stack),
                                error |-> "none",
                                effect |-> effect,
                                returned |-> IF effect.op = "subscribe"
                                             THEN PreIncrement(subscriptionId).result
                                             ELSE 0,
                                removed |-> IF effect.op = "unsubscribe"
                                            THEN Ids(GetOrEmpty(_subscriptions,
                                                                effect.listener))
                                            ELSE <<>>])
         /\ promises' = IF response.completion = "promise"
                        THEN Append(promises, [by |-> Len(log) + 1,
                                               value |-> response.value,
                                               settled |-> FALSE])
                        ELSE promises
         /\ stack' = <<[frame EXCEPT !.phase = "nested",
                                     !.pend = Pending(changes, response),
                                     !.cur = Len(log) + 1]>> \o Tail(StackAfter(effect))
  /\ UNCHANGED <<host, dispatched, calls>>

\* An iteration whose callback throws, or returns undefined so that reading
\* response.state throws (shapex.ts:253-257): the error leaves dispatch before
\* any assignment, through every dispatch in progress.
ThrowFromCallback ==
  /\ ~Idle
  /\ Top.phase = "call"
  /\ Top.i <= Len(Scoped(Top))
  /\ LET subscription == Scoped(Top)[Top.i]
         data == IF Truthy(Top.withData) THEN Top.withData ELSE Undefined
         received == Argument(_state, IF log = <<>> THEN _state ELSE log[1].state)
         response == Callback(subscription.callback, received, data)
     IN  /\ Raised(response) /= "none"
         /\ log' = Append(log, [id |-> subscription.id, listener |-> Top.to,
                                callback |-> subscription.callback,
                                once |-> subscription.once,
                                state |-> received, data |-> data,
                                response |-> response, changes |-> <<>>,
                                pass |-> Top.pass, depth |-> Len(stack),
                                error |-> Raised(response),
                                effect |-> NoEffect, returned |-> 0, removed |-> <<>>])
         /\ _subscriptions' = Unwound(_subscriptions, stack)
         /\ stack' = Unwind(stack)
  /\ UNCHANGED <<host, _state, subscriptionId, dispatched, calls, promises>>

\* The next nested dispatch call of the current response.
NestedDispatch ==
  /\ ~Idle
  /\ Top.phase = "nested"
  /\ Top.pend /= <<>>
  /\ LET call == Head(Top.pend)
         caller == [Top EXCEPT !.pend = Tail(Top.pend)]
     IN  /\ stack' = Enter(<<caller>> \o Tail(stack), call.to, call.withData,
                           Len(calls) + 1)
         /\ calls' = Append(calls, CallRecord(call.to, call.withData, Top.cur))
  /\ UNCHANGED <<host, _state, _subscriptions, subscriptionId, dispatched, log, promises>>

\* Mutant of Retained: the retained subscription is put in front of the list.
RetainedInFront(remaining, subscription) ==
  IF subscription.once THEN remaining ELSE <<subscription>> \o remaining

\* if (!subscription.once) remainingSubscriptions.push(subscription) (shapex.ts:287-289)
Retained(remaining, subscription) ==
  IF subscription.once THEN remaining ELSE Append(remaining, subscription)

\* The end of an iteration (shapex.ts:285-289).
NextSubscription ==
  /\ ~Idle
  /\ Top.phase = "nested"
  /\ Top.pend = <<>>
  /\ LET subscription == Scoped(Top)[Top.i]
     IN  stack' = <<[Top EXCEPT !.phase = "call",
                                !.i = Advance(Top.i),
                                !.remaining = Retained(Top.remaining, subscription)]>>
                  \o Tail(stack)
  /\ UNCHANGED <<host, _state, _subscriptions, subscriptionId, dispatched, log, calls,
               promises>>

\* After the loop: _subscriptions.set(to, remainingSubscriptions) (shapex.ts:292).
FinishDispatch ==
  /\ ~Idle
  /\ Top.phase = "call"
  /\ Top.i > Len(Scoped(Top))
  /\ _subscriptions' = Set(_subscriptions, Top.to, Top.remaining)
  /\ stack' = Detach(Tail(stack), Top.to, GetOrEmpty(_subscriptions, Top.to))
  /\ UNCHANGED <<host, _state, subscriptionId, dispatched, log, calls, promises>>

Next ==
  \/ \E p \in Handlers(host) : subscribe(p[1], p[2])
  \/ \E p \in OnceHandlers(host) : subscribeOnce(p[1], p[2])
  \/ \E name \in Names(host) : unsubscribe(name)
  \/ \E d \in Dispatches(host) : dispatch(d[1], d[2])
  \/ InvokeCallback
  \/ NestedDispatch
  \/ NextSubscription
  \/ FinishDispatch

Spec == Init /\ [][Next]_vars

\* The hosts of FlowHosts also run callbacks that fail.
NextFlow ==
  \/ \E p \in Handlers(host) : subscribe(p[1], p[2])
  \/ \E p \in OnceHandlers(host) : subscribeOnce(p[1], p[2])
  \/ \E name \in Names(host) : unsubscribe(name)
  \/ \E d \in Dispatches(host) : dispatch(d[1], d[2])
  \/ InvokeCallback
  \/ NestedDispatch
  \/ NextSubscription
  \/ FinishDispatch
  \/ ThrowFromCallback

SpecFlow == InitFlow /\ [][NextFlow]_vars

\* The job that fulfils the oldest pending promise of an async callback.  It
\* runs when no code of the host or of the instance is on the call stack.
\* dispatch attached no reaction to the promise (shapex.ts:253-283 has neither
\* await nor then), so fulfilling it schedules nothing.
FulfilPromise ==
  /\ Idle
  /\ \E k \in 1..Len(promises) :
       /\ ~promises[k].settled
       /\ \A m \in 1..(k - 1) : promises[m].settled
       /\ promises' = [promises EXCEPT ![k].settled = TRUE]
  /\ UNCHANGED <<host, _state, _subscriptions, subscriptionId, stack, dispatched, log,
                 calls>>

NextAsync ==
  \/ \E p \in Handlers(host) : subscribe(p[1], p[2])
  \/ \E p \in OnceHandlers(host) : subscribeOnce(p[1], p[2])
  \/ \E name \in Names(host) : unsubscribe(name)
  \/ \E d \in Dispatches(host) : dispatch(d[1], d[2])
  \/ InvokeCallback
  \/ NestedDispatch
  \/ NextSubscription
  \/ FinishDispatch
  \/ FulfilPromise

SpecAsync == InitAsync /\ [][NextAsync]_vars

SpecReentrant == InitReentrant /\ [][Next]_vars

SpecDiff == InitDiff /\ [][Next]_vars

SpecCascade == InitCascade /\ [][Next]_vars

SpecAbort == InitAbort /\ [][NextFlow]_vars

(***************************************************************************)
(* Vocabulary of the properties, over the history of the latest host       *)
(* dispatch: log holds the callback invocations in order, calls the        *)
(* dispatch calls in order, each with the invocation (by) that made it.    *)
(***************************************************************************)
Invocations == 1..Len(log)
\* The invocations whose result carried a defined state.
Replacements == {r \in Invocations : log[r].response.hasState}
\* The state a result carries, as the current state it becomes.
Carried(r) == Located(log[r].response.state, "$")
\* The dispatch calls invocation r made for name.
CallsBy(r, name) == {c \in 1..Len(calls) : calls[c].by = r /\ calls[c].to = name}
\* The invocations of subscription id in the pass of dispatch call c.
InvocationsIn(c, id) == {j \in Invocations : log[j].pass = c /\ log[j].id = id}
\* Invocation r dispatched name exactly once, and that pass invoked every
\* subscription registered under name exactly once.
NotifiedOnce(r, name) ==
  /\ Cardinality(CallsBy(r, name)) = 1
  /\ \A c \in CallsBy(r, name) :
       \A k \in 1..Len(calls[c].ids) :
         Cardinality(InvocationsIn(c, calls[c].ids[k])) = 1
\* Some subscription was invoked in a pass that r dispatched for name.
Fired(r, name) ==
  \E c \in CallsBy(r, name) : \E j \in Invocations : log[j].pass = c
\* The value at a root key / at nested.value of a state tree.
Counter(tree) == GetKey(tree, "counter").val
HasNestedValue(tree) ==
  /\ HasKey(tree, "nested")
  /\ GetKey(tree, "nested").val.t = "object"
  /\ HasKey(GetKey(tree, "nested").kids, "value")
NestedValue(tree) == GetKey(GetKey(tree, "nested").kids, "value").val

(***************************************************************************)
(* C1: once the outermost dispatch has returned, the current state is the  *)
(* state carried by the last callback result, in invocation order, that    *)
(* carried a defined state (the state is untouched if none did); with      *)
(* initial state {counter: 1} and a single subscriber returning            *)
(* {state: {counter: state.counter + 1}}, one dispatch gives {counter: 2}. *)
(***************************************************************************)
C1_StateIsLastResult ==
  Idle /\ log /= <<>> =>
    /\ IF Replacements = {} THEN state = log[1].state
       ELSE state = Carried(CHOOSE r \in Replacements : \A q \in Replacements : q <= r)
    /\ ( /\ Len(log) = 1
         /\ log[1].callback = "incr"
         /\ log[1].state = <<Fld("counter", Num(1), <<>>)>>
         => state = <<Fld("counter", Num(2), <<>>)>> )

C1_Witness ==
  /\ Idle
  /\ Len(log) = 1
  /\ log[1].callback = "incr"
  /\ log[1].state = <<Fld("counter", Num(1), <<>>)>>
  /\ state = <<Fld("counter", Num(2), <<>>)>>

(***************************************************************************)
(* C2: a subscription made with subscribeOnce is invoked at most once,     *)
(* also when its name is dispatched again from inside the pass that is     *)
(* invoking it.                                                            *)
(***************************************************************************)
C2_OnceInvokedAtMostOnce ==
  \A i, j \in Invocations : log[i].once /\ log[i].id = log[j].id => i = j

C2_FailingRun ==
  /\ host = "repeat"
  /\ Len(log) = 2
  /\ log[1].once /\ log[1].callback = "incrUntil"
  /\ log[2].id = log[1].id

(***************************************************************************)
(* C3: propagation is depth-first.  No subscriber of a pass is invoked     *)
(* between an invocation of that pass and any invocation of the cascade it *)
(* triggered; and when the next subscriber of the pass is invoked, every   *)
(* dispatch the earlier one asked for (changed paths and follow-ups) has   *)
(* been made and has returned.                                             *)
(***************************************************************************)
\* The invocation whose result made the dispatch call of j's pass (0: the host).
Trigger(j) == calls[log[j].pass].by
\* The chain of invocations whose cascade j belongs to.
RECURSIVE Triggers(_)
Triggers(j) == IF Trigger(j) = 0 THEN {} ELSE {Trigger(j)} \cup Triggers(Trigger(j))

C3_DepthFirst ==
  /\ \A j \in Invocations : \A t \in Triggers(j) :
       \A k \in (t + 1)..(j - 1) : log[k].pass /= log[t].pass
  /\ \A i, j \in Invocations :
       i < j /\ log[i].pass = log[j].pass =>
         /\ Cardinality({c \in 1..Len(calls) : calls[c].by = i})
              = Len(log[i].changes) + Len(Requests(log[i].response))
         /\ \A k \in 1..Len(stack) : calls[stack[k].pass].by /= i

C3_Witness ==
  /\ Idle
  /\ \E i, j, k \in Invocations :
       /\ i < j /\ j < k
       /\ log[i].pass = log[k].pass
       /\ log[i].callback = "incrThen"
       /\ Trigger(j) = i
       /\ log[j].listener = "nested-event"
       /\ log[j].data = Str("arg-value")

(***************************************************************************)
(* C4: when a callback returns a state whose value at root key counter     *)
(* differs from the current one, "$.counter" is dispatched exactly once    *)
(* for that replacement and every subscription registered under            *)
(* "$.counter" is invoked exactly once in that pass, without data and with *)
(* the new state (the state current at the invocation, which is the new    *)
(* state unless a callback invoked in between changed the state again).    *)
(***************************************************************************)
ChangesCounter(r) ==
  /\ r \in Replacements
  /\ HasKey(log[r].state, "counter")
  /\ HasKey(log[r].response.state, "counter")
  /\ StrictNotEqual(Counter(log[r].state), Counter(log[r].response.state))

C4_CounterListenersNotified ==
  Idle =>
    \A r \in Invocations :
      ChangesCounter(r) =>
        /\ NotifiedOnce(r, "$.counter")
        /\ \A c \in CallsBy(r, "$.counter") : \A j \in Invocations :
             log[j].pass = c =>
               /\ log[j].data = Undefined
               /\ \/ log[j].state = Carried(r)
                  \/ \E q \in (r + 1)..(j - 1) : log[q].changes /= <<>>

C4_Witness ==
  /\ Idle
  /\ \E r \in Invocations :
       /\ ChangesCounter(r)
       /\ \E c \in CallsBy(r, "$.counter") :
            /\ Len(calls[c].ids) = 2
            /\ \A k \in 1..2 :
                 \E j \in InvocationsIn(c, calls[c].ids[k]) :
                   log[j].state = <<Fld("counter", Num(2), <<>>)>>

(***************************************************************************)
(* C5: initial state {counter: 1}, a recording handler subscribed to       *)
(* "$counter", a handler of "increment" returning                          *)
(* {state: {counter: state.counter + 1}}, one dispatch of "increment".     *)
(* Amended: the state becomes {counter: 2}, and the "$counter" handler is  *)
(* not invoked: the changed path is named "$.counter", and no dispatch the *)
(* engine makes for a changed path is named "$counter".                    *)
(***************************************************************************)
C5_Scenario ==
  /\ Idle
  /\ host = "counter"
  /\ dispatched = 1
  /\ Len(calls) >= 1
  /\ calls[1].to = "increment"
  /\ Keys(_subscriptions) \in {<<"$counter", "increment">>, <<"increment", "$counter">>}
  /\ Len(Get(_subscriptions, "$counter")) = 1
  /\ Len(Get(_subscriptions, "increment")) = 1
  /\ Get(_subscriptions, "increment")[1].callback = "incr"

StructurallyEqual(r) == r \in Replacements /\ Carried(r) = log[r].state

C6_EqualStateNotifiesNothing ==
  \A r \in Invocations :
    StructurallyEqual(r) =>
      \A c \in 1..Len(calls) : calls[c].by = r => calls[c].ids = <<>>

C6_FailingRun ==
  /\ Idle
  /\ \E r \in Invocations :
       /\ StructurallyEqual(r)
       /\ log[r].callback = "copy"
       /\ Fired(r, "$.nested")

(***************************************************************************)
(* C7: when a replacement changes nested.value, nested being rebuilt as a  *)
(* new object, the listeners of "$.nested.value" and those of "$.nested"   *)
(* are both dispatched (each once) for that replacement.                   *)
(***************************************************************************)
ChangesNestedValue(r) ==
  /\ r \in Replacements
  /\ HasNestedValue(log[r].state)
  /\ HasNestedValue(log[r].response.state)
  /\ StrictNotEqual(NestedValue(log[r].state), NestedValue(log[r].response.state))
  /\ StrictNotEqual(GetKey(log[r].state, "nested").val,
                    GetKey(log[r].response.state, "nested").val)

C7_ChildAndParentNotified ==
  Idle =>
    \A r \in Invocations :
      ChangesNestedValue(r) =>
        /\ NotifiedOnce(r, "$.nested.value")
        /\ NotifiedOnce(r, "$.nested")

C7_Witness ==
  /\ Idle
  /\ \E r \in Invocations :
       /\ ChangesNestedValue(r)
       /\ Fired(r, "$.nested.value")
       /\ Fired(r, "$.nested")

(***************************************************************************)
(* C8: when a replacement removes a key of the old state, every            *)
(* subscription registered on that key's path is invoked exactly once for  *)
(* that replacement.                                                       *)
(***************************************************************************)
RootKeys(tree) == {tree[i].k : i \in 1..Len(tree)}
RemovedKeys(r) == RootKeys(log[r].state) \ RootKeys(log[r].response.state)

C8_RemovedKeyNotified ==
  Idle =>
    \A r \in Replacements :
      \A k \in RemovedKeys(r) : NotifiedOnce(r, "$." \o k)

C8_Witness ==
  /\ Idle
  /\ \E r \in Replacements :
       /\ "nested" \in RemovedKeys(r)
       /\ Fired(r, "$.nested")

(***************************************************************************)
(* C9: when a replacement changes the runtime type of the value at a key,  *)
(* every subscription registered on that key's path is invoked exactly     *)
(* once for that replacement.                                              *)
(***************************************************************************)
RetypedKeys(r) ==
  {k \in RootKeys(log[r].state) \cap RootKeys(log[r].response.state) :
     GetKey(log[r].state, k).val.t /= GetKey(log[r].response.state, k).val.t}

C9_TypeChangeNotified ==
  Idle =>
    \A r \in Replacements :
      \A k \in RetypedKeys(r) : NotifiedOnce(r, "$." \o k)

C9_Witness ==
  /\ Idle
  /\ \E r \in Replacements :
       /\ "counter" \in RetypedKeys(r)
       /\ Counter(log[r].state) = Num(1)
       /\ Counter(log[r].response.state).t = "string"
       /\ Fired(r, "$.counter")

(***************************************************************************)
(* C10: a key absent from the old state and present in the new one is      *)
(* reported at its own path: the subscriptions of "$.view" are invoked     *)
(* when view is added to the empty state, and when a nested object is      *)
(* added those of "$.nested" and of "$.nested.value" are both invoked.     *)
(***************************************************************************)
AddedKeys(r) == RootKeys(log[r].response.state) \ RootKeys(log[r].state)

C10_AddedKeyNotified ==
  Idle =>
    \A r \in Replacements :
      \A k \in AddedKeys(r) :
        /\ NotifiedOnce(r, "$." \o k)
        /\ \A k2 \in RootKeys(GetKey(log[r].response.state, k).kids) :
             NotifiedOnce(r, "$." \o k \o "." \o k2)

C10_Witness ==
  /\ Idle
  /\ \E r \in Replacements :
       /\ log[r].state = <<>>
       /\ AddedKeys(r) = {"nested"}
       /\ Fired(r, "$.nested")
       /\ Fired(r, "$.nested.value")

(***************************************************************************)
(* Further vocabulary.                                                     *)
(***************************************************************************)
\* The latest host dispatch ended with an error.
Aborted == \E j \in Invocations : log[j].error /= "none"
\* The dispatch calls invocation r made, in the order it made them.
CallsOf(r) == SelectSeq([c \in 1..Len(calls) |-> c], LAMBDA c : calls[c].by = r)
\* The current state right after invocation j.
StateAfter(j) == IF j < Len(log) THEN log[j + 1].state ELSE _state
\* The ids of the subscriptions a registry holds.
RegisteredIds(map) ==
  UNION {{map[i].subs[k].id : k \in 1..Len(map[i].subs)} : i \in 1..Len(map)}

\* C11: every callback invocation of a dispatch pass receives exactly the data
\* the dispatch call was given, whatever its value (no data when none was given).
C11_DataPassedAsGiven ==
  \A j \in Invocations : log[j].data = calls[log[j].pass].withData

\* A run where dispatch was given the number 0 and the callback received no data.
C11_FailingRun ==
  /\ Idle
  /\ \E j \in Invocations :
       /\ calls[log[j].pass].withData = Num(0)
       /\ log[j].data = Undefined

\* C12: once a host dispatch has completed, every invocation has made, after
\* the dispatches of its changed paths, exactly one dispatch call per request of
\* its result, in listed order, to the request's target and with exactly the
\* request's data, and the pass of each call ran nested inside the invocation.
C12_FollowUpsAsRequested ==
  (Idle /\ ~Aborted) =>
    \A r \in Invocations :
      LET reqs == log[r].response.dispatch.reqs
          made == CallsOf(r)
          n == Len(log[r].changes)
      IN  /\ Len(made) = n + Len(reqs)
          /\ \A k \in 1..Len(reqs) :
               /\ calls[made[n + k]].to = reqs[k].to
               /\ calls[made[n + k]].withData = reqs[k].with
               /\ \A j \in Invocations :
                    log[j].pass = made[n + k] =>
                      j > r /\ log[j].depth = log[r].depth + 1

\* A run where a result requested nested-event with the number 0 and the
\* subscriber of nested-event was invoked without data.
C12_FailingRun ==
  /\ Idle
  /\ \E r \in Invocations :
       /\ log[r].callback = "parentZero"
       /\ \E c \in CallsBy(r, "nested-event") :
            /\ calls[c].withData = Undefined
            /\ \E j \in Invocations : log[j].pass = c /\ log[j].data = Undefined

\* C13: a call of subscribe or subscribeOnce for a name raises subscriptionCount
\* of that name by exactly 1 and leaves the count of every other name as it was;
\* right after unsubscribe(name) subscriptionCount(name) is 0; no count is negative.
C13_CountsFollowCalls ==
  [][/\ Idle =>
          /\ \A p \in Handlers(host) :
               subscribe(p[1], p[2]) =>
                 \A n \in Names(host) :
                   subscriptionCount(n)' =
                     subscriptionCount(n) + (IF n = p[1] THEN 1 ELSE 0)
          /\ \A p \in OnceHandlers(host) :
               subscribeOnce(p[1], p[2]) =>
                 \A n \in Names(host) :
                   subscriptionCount(n)' =
                     subscriptionCount(n) + (IF n = p[1] THEN 1 ELSE 0)
          /\ \A n \in Names(host) : unsubscribe(n) => subscriptionCount(n)' = 0
     /\ \A n \in Names(host) :
          subscriptionCount(n) >= 0 /\ subscriptionCount(n)' >= 0]_vars

\* Three subscribe calls and then an unsubscribe of one name, before any dispatch:
\* the only name left holds two subscriptions.
C13_Witness ==
  /\ dispatched = 0
  /\ subscriptionId = 3
  /\ Len(subscriptions) = 1
  /\ subscriptionCount(subscriptions[1]) = 2

\* C14: in every state the names subscriptions() returns are pairwise distinct
\* and each of them holds at least one subscription.
C14_NamesHoldSubscriptions ==
  /\ \A i, j \in 1..Len(subscriptions) : i /= j => subscriptions[i] /= subscriptions[j]
  /\ \A i \in 1..Len(subscriptions) : subscriptionCount(subscriptions[i]) >= 1

\* A host dispatch has returned after invoking a one-shot subscription, and
\* subscriptions() still returns its name although the name holds no subscription.
C14_FailingRun ==
  /\ Idle
  /\ \E j \in Invocations :
       /\ log[j].once
       /\ Includes(subscriptions, log[j].listener)
       /\ subscriptionCount(log[j].listener) = 0

\* C15: while the latest host dispatch is one of a name without subscriptions,
\* no callback has been invoked (so none has failed) and every step leaves the
\* current state, the registry and the id counter as they were.
C15_NoSubscribersNoEffect ==
  [][(calls' /= <<>> /\ calls'[1].ids = <<>>) =>
       /\ log' = <<>>
       /\ state' = state
       /\ _subscriptions' = _subscriptions
       /\ subscriptionId' = subscriptionId]_vars

\* A host dispatch of a name whose key is still in the registry with an empty
\* array (its one-shot subscriptions were consumed) has returned.
C15_Witness ==
  /\ Idle
  /\ Len(calls) = 1
  /\ calls[1].ids = <<>>
  /\ Has(_subscriptions, calls[1].to)

\* C16: state() is the initial state after construction; no call of subscribe,
\* subscribeOnce or unsubscribe changes it; it changes only in a step that
\* invokes a callback whose result carries a defined state, and then to that state.
C16_StateChangesOnlyByResult ==
  /\ state = InitialState(host)
  /\ [][/\ Idle => state' = state
        /\ state' /= state =>
             /\ Len(log') = Len(log) + 1
             /\ log'[Len(log')].response.hasState
             /\ state' = Located(log'[Len(log')].response.state, "$")]_vars

\* A dispatch has changed the state, and a later subscribe, subscribeOnce or
\* unsubscribe call has left the changed state in place.
C16_Witness ==
  /\ Idle
  /\ dispatched > 0
  /\ log = <<>>
  /\ calls = <<>>
  /\ state /= InitialState(host)

\* C17: the id counter starts at 0 and is shared by all names; a step that
\* registers a subscription returns for it the counter plus 1 and sets the
\* counter to that id; no other step (unsubscribe, dispatch) changes the counter.
\* So the ids returned are 1, 2, 3, ... in call order.
C17_IdsCountUp ==
  /\ subscriptionId = 0
  /\ [][IF RegisteredIds(_subscriptions') \subseteq RegisteredIds(_subscriptions)
        THEN subscriptionId' = subscriptionId
        ELSE /\ RegisteredIds(_subscriptions') \ RegisteredIds(_subscriptions)
                  = {subscriptionId + 1}
             /\ subscriptionId' = subscriptionId + 1]_vars

\* Three ids were returned, for at least two names, and after a dispatch only
\* the subscription with id 3 is still registered.
C17_Witness ==
  /\ dispatched > 0
  /\ subscriptionId = 3
  /\ RegisteredIds(_subscriptions) = {3}

\* C18: unsubscribe(name) leaves no subscription under name, leaves the entries
\* of all other names and state() as they were, and changes nothing when name
\* holds no subscription.
C18_UnsubscribeRemovesOnlyName ==
  [][\A n \in Names(host) :
       unsubscribe(n) =>
         /\ subscriptionCount(n)' = 0
         /\ \A m \in Names(host) \ {n} :
              /\ Has(_subscriptions', m) <=> Has(_subscriptions, m)
              /\ GetOrEmpty(_subscriptions', m) = GetOrEmpty(_subscriptions, m)
         /\ state' = state
         /\ subscriptionCount(n) = 0 =>
              /\ subscriptions' = subscriptions
              /\ subscriptionCount("")' = subscriptionCount("")]_vars

\* A state the failing call starts from: a dispatch consumed the one-shot
\* subscriptions of a name, whose key is still in the registry next to another
\* name; unsubscribe of the name without subscriptions then shortens subscriptions().
C18_FailingRun ==
  /\ Idle
  /\ dispatched > 0
  /\ Len(subscriptions) >= 2
  /\ \E n \in Names(host) :
       Has(_subscriptions, n) /\ subscriptionCount(n) = 0

\* The result of invocation j carries neither a state nor a dispatch request.
CarriesNothing(j) ==
  ~log[j].response.hasState /\ log[j].response.dispatch.kind = "none"
\* Invocation j raised no error, left the current state as it was, and the
\* pass went on: if the pass had a later subscriber, the dispatch has not
\* ended with j and the next invocation is that subscriber's, in the same pass.
SilentNoOp(j) ==
  LET ids == calls[log[j].pass].ids
      k == CHOOSE k \in 1..Len(ids) : ids[k] = log[j].id
  IN  /\ log[j].error = "none"
      /\ StateAfter(j) = log[j].state
      /\ k < Len(ids) =>
           /\ ~(Idle /\ j = Len(log))
           /\ j < Len(log) => log[j + 1].pass = log[j].pass /\ log[j + 1].id = ids[k + 1]

\* C19 as claimed: every invocation whose callback returns neither a state nor
\* a dispatch request, a callback that returns nothing included, is a silent
\* no-op: no error, state unchanged, the remaining subscribers still invoked.
C19_NoResultIsSilentNoOp ==
  \A j \in Invocations :
    (log[j].response.completion /= "throw" /\ CarriesNothing(j)) => SilentNoOp(j)

\* C19 amended: an invocation whose callback returns an object with neither a
\* state nor a dispatch request is a silent no-op; an invocation whose callback
\* returns nothing raises a TypeError that ends the dispatch there, with the
\* state unchanged.
C19_EmptyResultNoOpUndefinedThrows ==
  \A j \in Invocations :
    /\ (log[j].response.completion = "return" /\ CarriesNothing(j)) => SilentNoOp(j)
    /\ log[j].response.completion = "undefined" =>
         /\ log[j].error = "TypeError"
         /\ j = Len(log)
         /\ Idle
         /\ state = log[j].state

\* A pass invoked a callback returning {} and went on to the next subscriber,
\* whose callback returned nothing: the dispatch ended there with a TypeError.
C19_Witness ==
  /\ Idle
  /\ Len(log) >= 2
  /\ log[Len(log) - 1].callback = "observe"
  /\ log[Len(log) - 1].pass = log[Len(log)].pass
  /\ log[Len(log)].callback = "nothing"
  /\ log[Len(log)].error = "TypeError"

\* C20: an invocation that raised an error is the last invocation of the host
\* dispatch, and no dispatch is in progress any more: the error went through
\* every nested dispatch to the host's call, and no later subscriber of any
\* pass in progress was invoked.
C20_ThrowEndsAllPasses ==
  \A j \in Invocations :
    log[j].error /= "none" => (Idle /\ j = Len(log))

\* A callback threw in a nested pass while the pass of the host's dispatch
\* still had a subscriber to invoke; that subscriber was not invoked.
C20_Witness ==
  /\ Idle
  /\ log /= <<>>
  /\ log[Len(log)].callback = "throws"
  /\ log[Len(log)].depth >= 2
  /\ \E k \in 1..Len(calls[1].ids) : InvocationsIn(1, calls[1].ids[k]) = {}

\* The callbacks that return a promise.
AsyncCallbacks == {"asyncSame", "asyncIncr", "asyncParentList"}
\* No dispatch is in progress and no promise is pending: nothing is left to
\* run until the host calls the instance again.
Quiescent == Idle /\ \A k \in 1..Len(promises) : promises[k].settled

\* C21: the invocation of a callback that returns a promise is a silent no-op
\* of dispatch, during the dispatch and when it has returned: it replaces no
\* state, computes no change path, makes no dispatch call, and the pass goes on
\* to the remaining subscribers.
C21_PromiseNotAwaited ==
  \A j \in Invocations :
    log[j].callback \in AsyncCallbacks =>
      /\ SilentNoOp(j)
      /\ log[j].changes = <<>>
      /\ CallsOf(j) = <<>>

\* A returned dispatch whose pass invoked a callback promising {counter: 2} and
\* then the next subscriber of the pass; the promise has been fulfilled since.
C21_Witness ==
  /\ Quiescent
  /\ \E j \in Invocations :
       /\ log[j].callback = "asyncIncr"
       /\ j < Len(log)
       /\ log[j + 1].pass = log[j].pass
       /\ \E k \in 1..Len(promises) : promises[k].by = j

\* The scenario of shapex.test.ts:864-895: state {counter: 1}, a listener on
\* "$.counter", the asynchronous incrementing callback as only subscriber of
\* "increment", and dispatch("increment").
C22_Scenario ==
  /\ calls /= <<>>
  /\ calls[1].to = "increment"
  /\ Len(calls[1].ids) = 1
  /\ subscriptionCount("$.counter") >= 1
  /\ Len(log) >= 1
  /\ log[1].callback = "asyncIncr"
  /\ Counter(log[1].state) = Num(1)

\* C22: in that scenario, once the dispatch has returned and the promise is
\* fulfilled, with nothing left to run, the state is the promised {counter: 2}
\* and the "$.counter" listener has been invoked with it.
C22_AsyncResultInstalled ==
  (Quiescent /\ C22_Scenario) =>
    /\ Counter(state) = Num(2)
    /\ \E j \in Invocations :
         log[j].listener = "$.counter" /\ Counter(log[j].state) = Num(2)

\* The scenario has run to the end: the promise is fulfilled, nothing is left to
\* run, the state is still {counter: 1} and no listener of "$.counter" was invoked.
C22_FailingRun ==
  /\ Quiescent
  /\ C22_Scenario
  /\ promises /= <<>>
  /\ Counter(promises[1].value.state) = Num(2)
  /\ Counter(state) = Num(1)
  /\ \A j \in Invocations : log[j].listener /= "$.counter"

\* The elements of a sequence.
Elements(seq) == {seq[k] : k \in 1..Len(seq)}
\* The invocations whose callback subscribed, and those whose callback unsubscribed.
Subscribers == {j \in Invocations : log[j].effect.op = "subscribe"}
Unsubscribers == {j \in Invocations : log[j].effect.op = "unsubscribe"}

\* C23: every subscription invoked in a pass was registered under the name
\* when the pass started.
C23_PassIteratesSnapshot ==
  \A j \in Invocations : log[j].id \in Elements(calls[log[j].pass].ids)

\* A callback of a pass subscribed to the name of the pass, and the same pass
\* went on to invoke the new subscription.
C23_FailingRun ==
  /\ Idle
  /\ \E j \in Subscribers :
       /\ log[j].effect.listener = log[j].listener
       /\ \E k \in Invocations :
            k > j /\ log[k].pass = log[j].pass /\ log[k].id = log[j].returned

\* C24: when a host dispatch in which no callback unsubscribed has returned,
\* every subscription a callback added during it is registered under its name.
C24_AdditionsKept ==
  (Idle /\ ~Aborted /\ Unsubscribers = {}) =>
    \A j \in Subscribers :
      log[j].returned \in Elements(Ids(GetOrEmpty(_subscriptions, log[j].effect.listener)))

\* A callback of the outer pass subscribed to the name of the pass after a
\* nested dispatch of that name had completed; the host dispatch has returned
\* and the new subscription is registered nowhere.
C24_FailingRun ==
  /\ Idle
  /\ Unsubscribers = {}
  /\ \E j \in Subscribers :
       /\ log[j].depth = 1
       /\ \E c \in 2..Len(calls) : calls[c].to = log[j].listener /\ calls[c].by < j
       /\ log[j].returned \notin RegisteredIds(_subscriptions)

\* C25: when a host dispatch has returned, no subscription that a callback
\* removed with unsubscribe during it is registered, and none was invoked in a
\* pass that started after the unsubscribe.
C25_UnsubscribedStayRemoved ==
  \A j \in Unsubscribers :
    /\ Idle => Elements(log[j].removed) \cap RegisteredIds(_subscriptions) = {}
    /\ \A k \in Invocations :
         (k > j /\ calls[log[k].pass].by >= j) => log[k].id \notin Elements(log[j].removed)

\* A callback unsubscribed the name of its own pass; the host dispatch has
\* returned and every subscription the call removed is registered again.
C25_FailingRun ==
  /\ Idle
  /\ \E j \in Unsubscribers :
       /\ log[j].effect.listener = log[j].listener
       /\ log[j].removed /= <<>>
       /\ Elements(log[j].removed) \subseteq RegisteredIds(_subscriptions)

\* The ids of the one-shot subscriptions invoked during the latest host dispatch.
InvokedOnce == {log[j].id : j \in {i \in Invocations : log[i].once}}

\* C26: within a pass the subscriptions are invoked in the order of their
\* subscription (increasing id); and when a host dispatch in which no callback
\* subscribed or unsubscribed has returned, every dispatched name holds the
\* subscriptions it held when it was dispatched, in the same order, without
\* exactly the one-shot subscriptions that were invoked.
C26_OrderKept ==
  /\ \A j, k \in Invocations :
       (j < k /\ log[j].pass = log[k].pass) => log[j].id < log[k].id
  /\ (Idle /\ ~Aborted /\ Subscribers = {} /\ Unsubscribers = {}) =>
       \A c \in 1..Len(calls) :
         Ids(GetOrEmpty(_subscriptions, calls[c].to))
           = SelectSeq(calls[c].ids, LAMBDA id : id \notin InvokedOnce)

\* A returned host dispatch whose pass invoked three subscriptions of one name,
\* one of them one-shot; the name holds the other two.
C26_Witness ==
  /\ Idle
  /\ calls /= <<>>
  /\ Len(calls[1].ids) = 3
  /\ \A k \in 1..3 : InvocationsIn(1, calls[1].ids[k]) /= {}
  /\ Cardinality(Elements(calls[1].ids) \cap InvokedOnce) = 1
  /\ subscriptionCount(calls[1].to) = 2

\* C27: for every invocation whose result carries a defined state, the change
\* paths are the diff of the state the callback received and the state of the
\* result; the current state right after the invocation is the result's state;
\* the first dispatch calls the invocation makes are those of the change paths,
\* in order and without data; and a listener invoked in one of these passes,
\* with no other replacement in between, receives the result's state.
C27_InstalledBeforeNotified ==
  \A r \in Replacements :
    LET made == CallsOf(r)
        n == Len(log[r].changes)
    IN  /\ log[r].changes = differ(log[r].state, log[r].response.state)
        /\ StateAfter(r) = Carried(r)
        /\ Idle => Len(made) >= n
        /\ \A k \in 1..n :
             k <= Len(made) =>
               /\ calls[made[k]].to = log[r].changes[k]
               /\ calls[made[k]].withData = Undefined
               /\ \A j \in Invocations :
                    (log[j].pass = made[k] /\ Replacements \cap (r + 1)..(j - 1) = {}) =>
                      /\ j > r
                      /\ log[j].data = Undefined
                      /\ log[j].state = Carried(r)

\* A returned dispatch in which a result changed the state and the listener of
\* the first change path was invoked next, with the new state.
C27_Witness ==
  /\ Idle
  /\ \E r \in Replacements :
       /\ log[r].changes /= <<>>
       /\ Carried(r) /= log[r].state
       /\ r < Len(log)
       /\ log[r + 1].listener = log[r].changes[1]
       /\ log[r + 1].state = Carried(r)

\* C28: the change paths of an invocation are pairwise different, and the
\* invocation dispatches each of them exactly once when the host dispatch has
\* returned, never more often before.
C28_NoDuplicatePaths ==
  \A r \in Invocations :
    /\ \A a, b \in 1..Len(log[r].changes) :
         a /= b => log[r].changes[a] /= log[r].changes[b]
    /\ \A name \in Elements(log[r].changes) :
         /\ Cardinality(CallsBy(r, name)) <= 1
         /\ (Idle /\ ~Aborted) => Cardinality(CallsBy(r, name)) = 1

\* A replacement in which one path is met twice by the rules: the old and the
\* new state both have the key "a.b" and the key b inside a, all changed; the
\* listener of "$.a.b" was invoked once.
C28_Witness ==
  /\ Idle
  /\ \E r \in Replacements :
       LET keys == PathKeys(paths(log[r].state, "$"))
       IN  /\ \E a, b \in 1..Len(keys) : a /= b /\ keys[a] = "$.a.b" /\ keys[b] = "$.a.b"
           /\ log[r].changes = <<"$.a.b", "$.a">>
           /\ \E c \in CallsBy(r, "$.a.b") :
                Cardinality({j \in Invocations : log[j].pass = c}) = 1

\* The position at which a traversal first meets a path.
FirstIndex(keys, p) ==
  CHOOSE i \in 1..Len(keys) : keys[i] = p /\ \A m \in 1..(i - 1) : keys[m] /= p
\* The paths of the state invocation r received and of the state of its result.
OldKeys(r) == PathKeys(paths(log[r].state, "$"))
NewKeys(r) == PathKeys(paths(log[r].response.state, "$"))
\* The group of a change path: 1 added, 2 removed, 3 present in both states.
Group(r, p) ==
  IF ~Includes(OldKeys(r), p) THEN 1 ELSE IF ~Includes(NewKeys(r), p) THEN 2 ELSE 3
\* The position of a change path in the traversal that lists its group.
Position(r, p) ==
  IF Group(r, p) = 1 THEN FirstIndex(NewKeys(r), p) ELSE FirstIndex(OldKeys(r), p)

\* C29 as claimed: the change paths of a replacement that are paths of the old
\* state come in the order in which the traversal of the old state first meets
\* them, whatever the kind of change.
C29_OldTraversalOrder ==
  \A r \in Replacements :
    \A a, b \in 1..Len(log[r].changes) :
      (/\ a < b
       /\ Includes(OldKeys(r), log[r].changes[a])
       /\ Includes(OldKeys(r), log[r].changes[b])) =>
        FirstIndex(OldKeys(r), log[r].changes[a]) < FirstIndex(OldKeys(r), log[r].changes[b])

\* C29 amended: the change paths come in three groups, the added paths first,
\* then the removed paths, then the paths present in both states whose value
\* changed; inside a group they follow the traversal (of the new state for the
\* added paths, of the old state for the others); and the dispatch calls of the
\* replacement follow the order of the list.
C29_GroupedOrder ==
  \A r \in Replacements :
    /\ \A a, b \in 1..Len(log[r].changes) :
         a < b =>
           LET p == log[r].changes[a]
               q == log[r].changes[b]
           IN  \/ Group(r, p) < Group(r, q)
               \/ Group(r, p) = Group(r, q) /\ Position(r, p) < Position(r, q)
    /\ \A k \in 1..Len(log[r].changes) :
         k <= Len(CallsOf(r)) => calls[CallsOf(r)[k]].to = log[r].changes[k]

\* Old state {a: 1, b: 2}, new state {a: 2}: the listener of "$.b" was invoked
\* before the listener of "$.a".
C29_Witness ==
  /\ Idle
  /\ \E r \in Replacements :
       /\ log[r].callback = "dropB"
       /\ log[r].changes = <<"$.b", "$.a">>
       /\ \E j, k \in Invocations :
            /\ r < j /\ j < k
            /\ log[j].listener = "$.b"
            /\ log[k].listener = "$.a"

\* The root keys of the old state whose value is an object and which the state
\* of the result no longer has, and the paths of the keys inside such an object.
RemovedObjects(r) ==
  {k \in RemovedKeys(r) : GetKey(log[r].state, k).val.t = "object"}
DescendantPaths(r, k) ==
  Elements(PathKeys(paths(GetKey(log[r].state, k).kids, "$." \o k)))

\* C30 as claimed: when a replacement removes a key whose old value is an
\* object, no path of a key inside that object is among the change paths.
C30_DeletedKeyOnly ==
  \A r \in Replacements :
    \A k \in RemovedObjects(r) :
      DescendantPaths(r, k) \cap Elements(log[r].changes) = {}

\* C30 amended: the key's own path and the path of every key inside the removed
\* object are among the change paths, and once the host dispatch has returned
\* the replacement has notified the listeners of each of them once.
C30_DeletedKeyAndDescendants ==
  \A r \in Replacements :
    \A k \in RemovedObjects(r) :
      \A p \in {"$." \o k} \cup DescendantPaths(r, k) :
        /\ p \in Elements(log[r].changes)
        /\ Idle => NotifiedOnce(r, p)

\* The key nested, holding {value: ...}, was removed, and the listener of
\* "$.nested.value" was invoked for it.
C30_Witness ==
  /\ Idle
  /\ \E r \in Replacements :
       /\ "nested" \in RemovedObjects(r)
       /\ "$.nested.value" \in DescendantPaths(r, "nested")
       /\ Fired(r, "$.nested.value")

\* C31 as claimed: the traversal visits the keys of the old state only, so every
\* change path of a replacement is a path of the old state and a key the old
\* state lacks is never reported at its own path.
C31_OldKeysOnly ==
  \A r \in Replacements :
    \A p \in Elements(log[r].changes) : Includes(OldKeys(r), p)

\* C31 amended: both states are traversed.  Every path of the new state that
\* the old state lacks is a change path of the replacement, at the root as
\* well as inside an object the old state already had, and the replacement
\* dispatches it once; the other change paths are the paths the new state lacks
\* and the paths of both whose values differ, so the parent of an added key is
\* reported only if its own value changed.
C31_AddedPathsReported ==
  \A r \in Replacements :
    /\ \A p \in Elements(NewKeys(r)) :
         ~Includes(OldKeys(r), p) =>
           /\ p \in Elements(log[r].changes)
           /\ Idle => Cardinality(CallsBy(r, p)) = 1
    /\ \A p \in Elements(log[r].changes) :
         \/ ~Includes(OldKeys(r), p)
         \/ ~Includes(NewKeys(r), p)
         \/ StrictNotEqual(FindValue(paths(log[r].state, "$"), p),
                           FindValue(paths(log[r].response.state, "$"), p))

\* The key extra was added inside the object nested of the old state: its own
\* path is reported, ahead of the path of its parent, and its listener invoked.
C31_Witness ==
  /\ Idle
  /\ \E r \in Replacements :
       /\ log[r].callback = "addExtra"
       /\ Includes(OldKeys(r), "$.nested")
       /\ ~Includes(OldKeys(r), "$.nested.extra")
       /\ log[r].changes = <<"$.nested.extra", "$.nested">>
       /\ Fired(r, "$.nested.extra")

\* The names a callback can make dispatch be called with: the change paths of
\* the states it returns and the names of its follow-up requests.
MayDispatch(cb) ==
  CASE cb = "incr" -> {"$.counter"}
    [] cb = "incrThen" -> {"$.counter", "nested-event"}
    [] cb = "incrUntil" -> {"$.counter", "increment"}
    [] cb = "setView" -> {"$.view"}
    [] cb = "setBoth" -> {"$.a", "$.b"}
    [] cb = "restoreB" -> {"$.b"}
    [] cb = "addExtra" -> {"$.nested", "$.nested.extra"}
    [] OTHER -> {}
\* The event graph of a host: an edge from a name to every name that a callback
\* subscribed under it can make dispatch be called with.
EventGraph(h) ==
  UNION {{<<p[1], t>> : t \in MayDispatch(p[2])} : p \in Handlers(h) \cup OnceHandlers(h)}
RECURSIVE Closure(_)
Closure(R) ==
  LET more == R \cup {<<x[1][1], x[2][2]>> : x \in {y \in R \X R : y[1][2] = y[2][1]}}
  IN  IF more = R THEN R ELSE Closure(more)
\* No name can trigger, through any chain, a dispatch of itself.
Acyclic(h) == \A e \in Closure(EventGraph(h)) : e[1] /= e[2]
\* No callback of the host calls subscribe.
NoSubscribing(h) ==
  \A p \in Handlers(h) \cup OnceHandlers(h) :
    \A d \in Dispatches(h) : Effect(p[2], d[2]).op /= "subscribe"
\* What the engine does in a host dispatch: the calls made on behalf of an
\* invocation are those of its callback's result; a pass invokes only
\* subscriptions that were registered when it began, each at most once.
NoRepetition ==
  /\ \A c \in 1..Len(calls) :
       calls[c].by /= 0 => calls[c].to \in MayDispatch(log[calls[c].by].callback)
  /\ \A j \in Invocations :
       /\ Includes(calls[log[j].pass].ids, log[j].id)
       /\ Cardinality(InvocationsIn(log[j].pass, log[j].id)) = 1
\* The dispatches in progress have pairwise different names, each a key of
\* the registry, so that their number is bounded by the number of keys.
NoReentry ==
  /\ \A a, b \in 1..Len(stack) : a /= b => stack[a].to /= stack[b].to
  /\ Len(stack) <= subscriptionCount("")

\* An upper bound on the steps that a dispatch still has to make, computed
\* from the registry and the event graph: the steps of a pass over the
\* subscriptions of a name (PassCost), of one iteration for a callback
\* (CallbackCost), of the calls an iteration has still to make (PendCost), and
\* of an invocation in progress (FrameCost).
RECURSIVE PassCost(_), CallbackCost(_), TargetsCost(_), SubsCost(_)
PassCost(name) ==
  IF Has(_subscriptions, name) THEN 1 + SubsCost(Get(_subscriptions, name)) ELSE 0
CallbackCost(cb) == 2 + TargetsCost(MayDispatch(cb))
TargetsCost(names) ==
  IF names = {} THEN 0
  ELSE LET t == CHOOSE x \in names : TRUE
       IN  1 + PassCost(t) + TargetsCost(names \ {t})
SubsCost(subs) ==
  IF subs = <<>> THEN 0
  ELSE CallbackCost(Head(subs).callback) + SubsCost(Tail(subs))
RECURSIVE PendCost(_)
PendCost(pend) ==
  IF pend = <<>> THEN 0 ELSE 1 + PassCost(Head(pend).to) + PendCost(Tail(pend))
FrameCost(f) ==
  IF f.phase = "call"
  THEN 1 + SubsCost(SubSeq(Scoped(f), f.i, Len(Scoped(f))))
  ELSE 2 + PendCost(f.pend) + SubsCost(SubSeq(Scoped(f), f.i + 1, Len(Scoped(f))))
RECURSIVE StackCost(_)
StackCost(stk) == IF stk = <<>> THEN 0 ELSE FrameCost(Head(stk)) + StackCost(Tail(stk))
Measure == StackCost(stack)

\* C32: in a host whose callbacks never subscribe and whose event graph is
\* acyclic, a pass invokes each subscription it found at most once and no other,
\* no name is dispatched while a dispatch of it is in progress, and every step
\* of a dispatch in progress lowers a natural number bounded by the registry and
\* the event graph, so that every dispatch call returns after finitely many
\* callback invocations.
C32_AcyclicTerminates ==
  /\ [](Acyclic(host) /\ NoSubscribing(host) => NoRepetition /\ NoReentry)
  /\ [][Acyclic(host) /\ NoSubscribing(host) /\ ~Idle => Measure' < Measure]_vars

\* A dispatch of an acyclic host has returned after a cascade three levels
\* deep: update changed a and b, the listener of "$.a" changed b again, and the
\* listener of "$.b" ran for both replacements.
C32_Witness ==
  /\ Idle
  /\ host = "restore"
  /\ Acyclic(host) /\ NoSubscribing(host)
  /\ ~Acyclic("loop")
  /\ Len(log) = 4
  /\ \E j \in Invocations : log[j].depth = 3

\* Invocation j belongs to the pass of dispatch call c or to its cascade.
InCascade(j, c) == log[j].pass = c \/ \E t \in Triggers(j) : log[t].pass = c
\* The invocations whose result carried both a state and follow-up requests.
WithStateAndFollowUps ==
  {r \in Replacements : log[r].response.dispatch.kind /= "none"}
\* The last replacement before invocation j (0 if there is none).
LastReplacement(j) ==
  IF Replacements \cap 1..(j - 1) = {} THEN 0
  ELSE CHOOSE q \in Replacements \cap 1..(j - 1) :
         \A q2 \in Replacements \cap 1..(j - 1) : q2 <= q

\* C33: for a result carrying a state and follow-up requests, the state is
\* current right after the invocation; the dispatch calls of the change paths
\* come before those of the follow-up requests; every invocation in the pass or
\* cascade of a change path precedes every invocation in the pass or cascade of
\* a follow-up; and a handler of a follow-up event receives the state of the
\* triggering result or of a later result, never an earlier state.
C33_StateBeforeFollowUps ==
  \A r \in WithStateAndFollowUps :
    LET made == CallsOf(r)
        n == Len(log[r].changes)
    IN  /\ StateAfter(r) = Carried(r)
        /\ \A k \in 1..Len(made) :
             IF k <= n
             THEN calls[made[k]].to = log[r].changes[k]
             ELSE /\ calls[made[k]].to = log[r].response.dispatch.reqs[k - n].to
                  /\ \A j \in Invocations :
                       InCascade(j, made[k]) =>
                         /\ \A m \in 1..n :
                              \A i \in Invocations : InCascade(i, made[m]) => i < j
                         /\ LastReplacement(j) >= r
                         /\ log[j].state = Carried(LastReplacement(j))

\* parent-event returned {counter: 2} with a follow-up to nested-event; the
\* listener of "$.counter" ran first and added view; the handler of nested-event
\* ran after it and received {counter: 2, view: "test"}.
C33_Witness ==
  /\ Idle
  /\ host = "chain"
  /\ \E r \in WithStateAndFollowUps :
       /\ log[r].callback = "incrThen"
       /\ Counter(log[r].state) = Num(1)
       /\ \E i, j \in Invocations :
            /\ r < i /\ i < j
            /\ log[i].listener = "$.counter" /\ log[i].callback = "setView"
            /\ log[j].listener = "nested-event"
            /\ Counter(log[j].state) = Num(2)
            /\ HasKey(log[j].state, "view")

\* C34: every callback invocation receives the state that is current when it
\* is made: the state the host dispatch began with as long as no result has
\* carried a state, and otherwise the state of the last result before it that
\* carried one, whichever pass or cascade that result belongs to.
C34_ReceivesCurrentState ==
  \A j \in Invocations :
    IF LastReplacement(j) = 0 THEN log[j].state = log[1].state
    ELSE log[j].state = Carried(LastReplacement(j))

\* Two subscribers of one pass: the first returned {counter: 2}, the listener
\* of "$.counter" it triggered added view, and the second subscriber received
\* {counter: 2, view: "test"} and returned {counter: 3, view: "test"}.
C34_Witness ==
  /\ Idle
  /\ host = "chain"
  /\ \E i, j, k \in Invocations :
       /\ i < j /\ j < k
       /\ log[i].pass = 1 /\ log[k].pass = 1
       /\ Counter(log[i].state) = Num(1)
       /\ i \in Replacements
       /\ log[j].listener = "$.counter" /\ log[j].callback = "setView"
       /\ Trigger(j) = i
       /\ log[k].callback = "incr"
       /\ Counter(log[k].state) = Num(2)
       /\ HasKey(log[k].state, "view")
       /\ Counter(state) = Num(3)

\* The passes that the error of the last invocation ended: the pass of the
\* failing invocation and the passes of the invocations that triggered it.
AbortedPasses ==
  IF Aborted
  THEN {log[Len(log)].pass} \cup {log[t].pass : t \in Triggers(Len(log))}
  ELSE {}
\* The state is the state of the last result that carried one.
NothingRolledBack ==
  IF Replacements = {} THEN log /= <<>> => state = log[1].state
  ELSE state = Carried(LastReplacement(Len(log) + 1))
\* A nested dispatch of the name of pass c began after c and returned.
Reentered(c) ==
  \E d \in 1..Len(calls) :
    d > c /\ d \notin AbortedPasses /\ calls[d].to = calls[c].to

\* C35 as claimed: after a callback has thrown, no replacement is undone, the
\* list of every aborted pass is the list the pass found when it began, and the
\* one-shot subscriptions invoked in an aborted pass are still registered.
C35_ListAsBeforePass ==
  Aborted =>
    /\ NothingRolledBack
    /\ \A c \in AbortedPasses :
         Ids(GetOrEmpty(_subscriptions, calls[c].to)) = calls[c].ids
    /\ \A j \in Invocations :
         log[j].pass \in AbortedPasses /\ log[j].once =>
           log[j].id \in RegisteredIds(_subscriptions)

\* C35 amended: after a callback has thrown, no replacement is undone and the
\* aborted passes have written nothing to the registry.  The list of an aborted
\* pass is the list the pass found when it began unless a nested dispatch of
\* the same name returned meanwhile; then it is what that dispatch wrote, and
\* the subscriptions it found that were invoked in aborted passes only are
\* all still registered, the one-shot ones included.
C35_AbortedPassesWriteNothing ==
  Aborted =>
    /\ Idle
    /\ NothingRolledBack
    /\ \A c \in AbortedPasses :
         /\ ~Reentered(c) =>
              Ids(GetOrEmpty(_subscriptions, calls[c].to)) = calls[c].ids
         /\ \A k \in 1..Len(calls[c].ids) :
              (\A j \in Invocations :
                 log[j].id = calls[c].ids[k] => log[j].pass \in AbortedPasses) =>
                Includes(Ids(GetOrEmpty(_subscriptions, calls[c].to)), calls[c].ids[k])

\* A one-shot subscriber and a subscriber returning {counter: 2} were invoked,
\* then the third subscriber of the pass threw: the state is {counter: 2} and
\* the one-shot subscription is still registered.
C35_Witness ==
  /\ Aborted
  /\ Len(log) = 3
  /\ log[1].once /\ log[1].error = "none"
  /\ log[2].callback = "incr" /\ Counter(log[2].state) = Num(1)
  /\ log[3].error = "Error"
  /\ Counter(state) = Num(2)
  /\ log[1].id \in RegisteredIds(_subscriptions)
  /\ subscriptionCount("increment") = 3

\* The value at a path of a state tree, Absent if the tree has no such path.
Absent == [t |-> "absent", n |-> 0, s |-> ""]
ValueAt(tree, p) ==
  IF Includes(PathKeys(paths(tree, "$")), p) THEN FindValue(paths(tree, "$"), p)
  ELSE Absent
\* Dispatch call c is one of the calls replacement r made for its change paths.
NotificationOf(c, r) ==
  /\ r \in Replacements
  /\ \E k \in 1..Len(log[r].changes) :
       k <= Len(CallsOf(r)) /\ CallsOf(r)[k] = c

\* C36: when a listener is invoked in a pass that a replacement dispatched for
\* one of its change paths, the value at that path in the state the listener
\* receives differs from the value at the path in the state before the
\* replacement (two objects are not compared: they count as different).
C36_NoStaleNotification ==
  \A j \in Invocations :
    LET c == log[j].pass
        r == calls[c].by
    IN  (r /= 0 /\ NotificationOf(c, r)) =>
          LET before == ValueAt(log[r].state, calls[c].to)
              received == ValueAt(log[j].state, calls[c].to)
          IN  \/ before.t = "object" /\ received.t = "object"
              \/ before = Absent /\ received /= Absent
              \/ before /= Absent /\ received = Absent
              \/ before /= Absent /\ received /= Absent /\ StrictNotEqual(before, received)

\* update replaced {a: 1, b: 1} by {a: 2, b: 2}; the listener of "$.a" set b
\* back to 1; the listener of "$.b" was then invoked for the replacement made
\* by update and received {a: 2, b: 1}, where b is what it was before.
C36_FailingRun ==
  /\ Idle
  /\ host = "restore"
  /\ \E r \in Replacements :
       /\ log[r].callback = "setBoth"
       /\ log[r].changes = <<"$.a", "$.b">>
       /\ ValueAt(log[r].state, "$.b") = Num(1)
       /\ \E j \in Invocations :
            /\ log[j].listener = "$.b"
            /\ Trigger(j) = r
            /\ ValueAt(log[j].state, "$.b") = Num(1)
            /\ ValueAt(log[j].state, "$.a") = Num(2)

====
